---- MODULE Spec2Model ----
(***************************************************************************)
(* Model of the vocabulary scripts anki.py and extractor.py.               *)
(*                                                                         *)
(* A Python str is a sequence of characters; a character is a one-letter   *)
(* TLA+ string (the backtick is written "BQ" and the unit separator \x1f   *)
(* is written "US", because neither can be typed in a TLA+ string).  Only  *)
(* ASCII text is modelled.  Python's None is the record None, a value v    *)
(* that is not None is Some(v).                                            *)
(***************************************************************************)
EXTENDS Integers, Sequences, FiniteSets, TLC

VARIABLES
    pc,                  \* position of the running script's main block
    stdout,              \* the lines printed so far
    calls,               \* the functions the main block has called so far
    raised,              \* the exception that left the main block ("" if none)
    \* anki.py
    db,                  \* the Anki database on disk
    row_index,           \* position of extract_front_fields in cursor.fetchall()
    front_fields,        \* extract_front_fields: front_fields / main: front_texts
    all_words_lower_set, \* main: all_words_lower_set, compare: anki_words
    sub_file,            \* the reference file sub.txt
    words_not_in_anki,   \* main: words_not_in_anki
    \* extractor.py
    argv,                \* sys.argv
    vtt_file,            \* the caption file at sys.argv[1]
    fs_writable,         \* whether clean_words.txt can be opened for writing
    extracted_text,      \* main: extracted_text
    unique_words,        \* main: unique_words
    clean_unique_words,  \* main: clean_unique_words
    out_file             \* the content of clean_words.txt

vars == <<pc, stdout, calls, raised, db, row_index, front_fields,
          all_words_lower_set, sub_file, words_not_in_anki, argv, vtt_file,
          fs_writable, extracted_text, unique_words, clean_unique_words,
          out_file>>

anki_vars == <<db, row_index, front_fields, all_words_lower_set, sub_file,
               words_not_in_anki>>

extractor_vars == <<argv, vtt_file, fs_writable, extracted_text, unique_words,
                    clean_unique_words, out_file>>

-----------------------------------------------------------------------------
(* Bounds of the model. *)

MaxRows == 2     \* notes in the database
MaxLines == 2    \* lines of sub.txt in a run of anki.py
MaxDiffLines == 3 \* lines of sub.txt when compare is checked on its own
MaxFrags == 3    \* fragments a front field is put together from
MaxWords == 3    \* words handed to clean_word_list
MaxCaptions == 2 \* captions of the VTT file

-----------------------------------------------------------------------------
(* Python values and built-ins. *)

None == [some |-> FALSE, v |-> <<>>]

Some(x) == [some |-> TRUE, v |-> x]

\* The printable ASCII characters in code point order, " " (32) to "~" (126).
Printable ==
    <<" ", "!", "\"", "#", "$", "%", "&", "'", "(", ")", "*", "+", ",", "-",
      ".", "/", "0", "1", "2", "3", "4", "5", "6", "7", "8", "9", ":", ";",
      "<", "=", ">", "?", "@", "A", "B", "C", "D", "E", "F", "G", "H", "I",
      "J", "K", "L", "M", "N", "O", "P", "Q", "R", "S", "T", "U", "V", "W",
      "X", "Y", "Z", "[", "\\", "]", "^", "_", "BQ", "a", "b", "c", "d", "e",
      "f", "g", "h", "i", "j", "k", "l", "m", "n", "o", "p", "q", "r", "s",
      "t", "u", "v", "w", "x", "y", "z", "{", "|", "}", "~">>

ord(c) ==
    CASE c = "\t" -> 9
      [] c = "\n" -> 10
      [] c = "\r" -> 13
      [] c = "US" -> 31
      [] OTHER -> 31 + (CHOOSE i \in 1..Len(Printable) : Printable[i] = c)

chr(n) == Printable[n - 31]

\* str.isspace for one character: \x1f is white space to Python.
whitespace == {" ", "\t", "\n", "\r", "US"}

\* string.punctuation
punctuation ==
    {"!", "\"", "#", "$", "%", "&", "'", "(", ")", "*", "+", ",", "-", ".",
     "/", ":", ";", "<", "=", ">", "?", "@", "[", "\\", "]", "^", "_", "BQ",
     "{", "|", "}", "~"}

\* the characters the pattern \d matches
digits == {"0", "1", "2", "3", "4", "5", "6", "7", "8", "9"}

lower_char(c) == IF ord(c) \in 65..90 THEN chr(ord(c) + 32) ELSE c

\* str.lower
lower(s) == [i \in 1..Len(s) |-> lower_char(s[i])]

SetMin(S) == CHOOSE m \in S : \A x \in S : m <= x

SetMax(S) == CHOOSE m \in S : \A x \in S : x <= m

\* str.strip
strip(s) ==
    LET keep == {i \in 1..Len(s) : s[i] \notin whitespace}
    IN  IF keep = {} THEN <<>> ELSE SubSeq(s, SetMin(keep), SetMax(keep))

\* str.split with no argument: the maximal runs of non-space characters
RECURSIVE split(_)
split(s) ==
    LET keep == {i \in 1..Len(s) : s[i] \notin whitespace}
    IN  IF keep = {} THEN <<>>
        ELSE LET a == SetMin(keep)
                 ends == {i \in a..Len(s) : s[i] \in whitespace}
                 b == IF ends = {} THEN Len(s) + 1 ELSE SetMin(ends)
             IN  <<SubSeq(s, a, b - 1)>> \o split(SubSeq(s, b, Len(s)))

\* str.split(sep)[0] for a one-character separator
first_field(s, sep) ==
    LET at == {i \in 1..Len(s) : s[i] = sep}
    IN  IF at = {} THEN s ELSE SubSeq(s, 1, SetMin(at) - 1)

\* str.replace: the occurrences of old, leftmost first and not overlapping
RECURSIVE replace(_, _, _)
replace(s, old, new) ==
    IF Len(s) < Len(old) THEN s
    ELSE IF SubSeq(s, 1, Len(old)) = old
         THEN new \o replace(SubSeq(s, Len(old) + 1, Len(s)), old, new)
         ELSE <<Head(s)>> \o replace(Tail(s), old, new)

\* str.translate(str.maketrans('', '', chars)): delete the characters
delete_chars(s, chars) == SelectSeq(s, LAMBDA c : c \notin chars)

\* re.sub(r'\[.*?\]', '', s): "." matches every character but the newline,
\* so a match runs from a "[" to the first "]" after it on the same line.
RECURSIVE re_sub_brackets(_)
re_sub_brackets(s) ==
    IF s = <<>> THEN <<>>
    ELSE LET close == {j \in 2..Len(s) : s[j] = "]"}
             j == SetMin(close)
             matches == /\ Head(s) = "["
                        /\ close # {}
                        /\ \A k \in 2..(j - 1) : s[k] # "\n"
         IN  IF matches THEN re_sub_brackets(SubSeq(s, j + 1, Len(s)))
             ELSE <<Head(s)>> \o re_sub_brackets(Tail(s))

\* the order of str: by code point, a proper prefix first
RECURSIVE str_less(_, _)
str_less(a, b) ==
    IF b = <<>> THEN FALSE
    ELSE IF a = <<>> THEN TRUE
    ELSE IF Head(a) = Head(b) THEN str_less(Tail(a), Tail(b))
    ELSE ord(Head(a)) < ord(Head(b))

\* set(list)
set(list) == {list[i] : i \in 1..Len(list)}

\* sorted(list(S)) for a set of str
RECURSIVE sorted(_)
sorted(S) ==
    IF S = {} THEN <<>>
    ELSE LET m == CHOOSE x \in S : \A y \in S : x = y \/ str_less(x, y)
         IN  <<m>> \o sorted(S \ {m})

\* ''.join of a list of str
RECURSIVE concat(_)
concat(list) == IF list = <<>> THEN <<>> ELSE Head(list) \o concat(Tail(list))

\* one printed line: what it says, the word it carries, the number it carries
Line(msg, arg, n) == [msg |-> msg, arg |-> arg, n |-> n]

-----------------------------------------------------------------------------
(* anki.py *)

s_br == <<"<", "b", "r", ">">>

s_div == <<"<", "d", "i", "v", ">">>

s_div_end == <<"<", "/", "d", "i", "v", ">">>

s_nl == <<"\n">>

clean_field_text(text) ==
    LET cleaned_text ==
            strip(replace(replace(replace(text, s_br, s_nl), s_div, s_nl),
                          s_div_end, <<>>))
    IN  re_sub_brackets(cleaned_text)

\* compare without the lower() of line 115
compare_case_sensitive(anki_words, file) ==
    IF ~file.exists THEN None
    ELSE LET stripped == [i \in 1..Len(file.lines) |-> strip(file.lines[i])]
         IN  Some(SelectSeq(stripped, LAMBDA word_from_file :
                      word_from_file # <<>> /\ word_from_file \notin anki_words))

\* compare leaving words_not_in_anki as it is when sub.txt is missing
compare_missing_as_empty(anki_words, file) ==
    IF ~file.exists THEN Some(<<>>)
    ELSE LET stripped == [i \in 1..Len(file.lines) |-> strip(file.lines[i])]
         IN  Some(SelectSeq(stripped, LAMBDA word_from_file :
                      word_from_file # <<>>
                      /\ lower(word_from_file) \notin anki_words))

\* the value compare returns; file is sub.txt, file.lines what iterating over
\* the open file yields
compare(anki_words, file) ==
    IF ~file.exists THEN None
    ELSE LET stripped == [i \in 1..Len(file.lines) |-> strip(file.lines[i])]
         IN  Some(SelectSeq(stripped, LAMBDA word_from_file :
                      word_from_file # <<>>
                      /\ lower(word_from_file) \notin anki_words))

\* the lines output_words prints
output_words(words) ==
    IF ~words.some THEN <<>>
    ELSE IF words.v # <<>>
         THEN LET unique_words_not_found == sorted(set(words.v))
              IN  <<Line("words not found", <<>>, 0)>>
                  \o [i \in 1..Len(unique_words_not_found) |->
                          Line("word", unique_words_not_found[i], 0)]
                  \o <<Line("total", <<>>, Len(unique_words_not_found))>>
         ELSE <<Line("all words found", <<>>, 0)>>

\* main, lines 138-141 and 160-161
MainFind ==
    /\ pc = "find"
    /\ calls' = Append(calls, "find_anki_database")
    /\ IF db.found
       THEN /\ stdout' = Append(stdout, Line("found database", <<>>, 0))
            /\ pc' = "connect"
       ELSE /\ stdout' = Append(stdout, Line("database not found", <<>>, 0))
            /\ pc' = "done"
    /\ UNCHANGED <<raised, anki_vars, extractor_vars>>

\* main line 142 and extract_front_fields up to cursor.execute
Connect ==
    /\ pc = "connect"
    /\ calls' = Append(calls, "extract_front_fields")
    /\ front_fields' = <<>>
    /\ row_index' = 1
    /\ IF db.broken
       THEN /\ stdout' = Append(stdout, Line("database error", <<>>, 0))
            /\ pc' = "words"
       ELSE /\ stdout' = stdout
            /\ pc' = IF db.rows = <<>> THEN "words" ELSE "rows"
    /\ UNCHANGED <<raised, db, all_words_lower_set, sub_file,
                   words_not_in_anki, extractor_vars>>

\* extract_front_fields: one turn of the loop over cursor.fetchall()
ProcessRow ==
    /\ pc = "rows"
    /\ LET row == db.rows[row_index]
       IN  IF ~row.is_str
           THEN /\ stdout' = Append(stdout, Line("an error occurred", <<>>, 0))
                /\ pc' = "words"
                /\ UNCHANGED <<front_fields, row_index>>
           ELSE LET raw_front_text == first_field(row.flds, "US")
                    cleaned_front_text == clean_field_text(raw_front_text)
                IN  /\ front_fields' = Append(front_fields, cleaned_front_text)
                    /\ row_index' = row_index + 1
                    /\ pc' = IF row_index = Len(db.rows) THEN "words" ELSE "rows"
                    /\ stdout' = stdout
    /\ UNCHANGED <<calls, raised, db, all_words_lower_set, sub_file,
                   words_not_in_anki, extractor_vars>>

\* main, lines 144-153 and 158-159
MainWords ==
    /\ pc = "words"
    /\ IF front_fields # <<>>
       THEN LET all_words ==
                    concat([i \in 1..Len(front_fields) |-> split(front_fields[i])])
            IN  /\ stdout' = Append(stdout, Line("extracted", <<>>, Len(all_words)))
                /\ all_words_lower_set' = {lower(word) : word \in set(all_words)}
                /\ pc' = "compare"
       ELSE /\ stdout' = Append(stdout, Line("no front fields", <<>>, 0))
            /\ all_words_lower_set' = all_words_lower_set
            /\ pc' = "done"
    /\ UNCHANGED <<calls, raised, db, row_index, front_fields, sub_file,
                   words_not_in_anki, extractor_vars>>

\* main line 155
Compare ==
    /\ pc = "compare"
    /\ calls' = Append(calls, "compare")
    /\ words_not_in_anki' = compare(all_words_lower_set, sub_file)
    /\ stdout' = IF sub_file.exists THEN stdout
                 ELSE Append(stdout, Line("file not found", <<>>, 0))
    /\ pc' = "output"
    /\ UNCHANGED <<raised, db, row_index, front_fields, all_words_lower_set,
                   sub_file, extractor_vars>>

\* main line 156
OutputWords ==
    /\ pc = "output"
    /\ calls' = Append(calls, "output_words")
    /\ stdout' = stdout \o output_words(words_not_in_anki)
    /\ pc' = "done"
    /\ UNCHANGED <<raised, anki_vars, extractor_vars>>

-----------------------------------------------------------------------------
(* extractor.py *)

\* the value extract_text_from_vtt returns
extract_text_from_vtt(file) ==
    IF file.status = "ok"
    THEN LET all_text ==
                 concat([i \in 1..Len(file.captions) |-> file.captions[i] \o <<" ">>])
         IN  Some(strip(all_text))
    ELSE None

\* the message extract_text_from_vtt prints on each of its except branches
vtt_error_line(file) ==
    CASE file.status = "missing" -> <<Line("vtt not found", <<>>, 0)>>
      [] file.status = "malformed" -> <<Line("vtt malformed", <<>>, 0)>>
      [] file.status = "unreadable" -> <<Line("vtt unexpected error", <<>>, 0)>>
      [] OTHER -> <<>>

extract_unique_words_from_text(text) ==
    IF text = <<>> THEN <<>>
    ELSE LET lowered == lower(text)
             no_punctuation == delete_chars(lowered, punctuation)
             words == split(no_punctuation)
             unique_word_set == set(words)
         IN  sorted(unique_word_set)

\* what save_words_to_file returns and leaves in the file
save_words_to_file(word_list, writable, old_content) ==
    IF writable
    THEN [ok |-> TRUE,
          content |-> Some(concat([i \in 1..Len(word_list) |->
                                       word_list[i] \o <<"\n">>]))]
    ELSE [ok |-> FALSE, content |-> old_content]

\* the threshold of line 114
MinLength == 4

\* clean_word_list keeping the words of MinLength characters too
clean_word_list_at_least(words) ==
    SelectSeq(words, LAMBDA word :
        LET is_long_enough == Len(word) >= MinLength
            contains_digit == \E i \in 1..Len(word) : word[i] \in digits
        IN  is_long_enough /\ ~contains_digit)

\* clean_word_list as its docstring has it: "2 characters or less" are removed
clean_word_list_docstring(words) ==
    SelectSeq(words, LAMBDA word :
        LET is_long_enough == Len(word) > 2
            contains_digit == \E i \in 1..Len(word) : word[i] \in digits
        IN  is_long_enough /\ ~contains_digit)

clean_word_list(words) ==
    SelectSeq(words, LAMBDA word :
        LET is_long_enough == Len(word) > MinLength
            contains_digit == \E i \in 1..Len(word) : word[i] \in digits
        IN  is_long_enough /\ ~contains_digit)

\* the names bound in the module's namespace when line 152 runs
module_names ==
    {"webvtt", "string", "sys", "re", "extract_text_from_vtt",
     "extract_unique_words_from_text", "save_words_to_file", "clean_word_list",
     "input_vtt_file", "output_unique_words_file", "extracted_text",
     "unique_words", "clean_unique_words"}

\* main, lines 126-130; sys.argv[1] is argv[2] here
MainArgs ==
    /\ pc = "args"
    /\ IF Len(argv) < 1
       THEN /\ stdout' = Append(stdout, Line("usage", <<>>, 0))
            /\ raised' = "SystemExit"
            /\ pc' = "done"
       ELSE IF Len(argv) < 2
            THEN /\ raised' = "IndexError"
                 /\ pc' = "done"
                 /\ stdout' = stdout
            ELSE /\ raised' = raised
                 /\ pc' = "extract"
                 /\ stdout' = stdout
    /\ UNCHANGED <<calls, anki_vars, extractor_vars>>

\* main, lines 136-138
MainExtract ==
    /\ pc = "extract"
    /\ calls' = Append(calls, "extract_text_from_vtt")
    /\ extracted_text' = extract_text_from_vtt(vtt_file)
    /\ stdout' = Append(stdout, Line("processing", <<>>, 0)) \o vtt_error_line(vtt_file)
    /\ pc' = "unique"
    /\ UNCHANGED <<raised, anki_vars, argv, vtt_file, fs_writable, unique_words,
                   clean_unique_words, out_file>>

\* main, lines 140-148 and 159-160
MainUnique ==
    /\ pc = "unique"
    /\ IF extracted_text.some
       THEN /\ calls' = Append(calls, "extract_unique_words_from_text")
            /\ unique_words' = extract_unique_words_from_text(extracted_text.v)
            /\ stdout' = stdout \o <<Line("text extracted", <<>>, 0),
                                     Line("extracting unique words", <<>>, 0)>>
            /\ pc' = "clean"
       ELSE /\ stdout' = Append(stdout, Line("could not extract", <<>>, 0))
            /\ pc' = "done"
            /\ UNCHANGED <<calls, unique_words>>
    /\ UNCHANGED <<raised, anki_vars, argv, vtt_file, fs_writable,
                   extracted_text, clean_unique_words, out_file>>

\* main, lines 150-151 and 157-158
MainClean ==
    /\ pc = "clean"
    /\ IF unique_words # <<>>
       THEN /\ calls' = Append(calls, "clean_word_list")
            /\ clean_unique_words' = clean_word_list(unique_words)
            /\ stdout' = stdout
            /\ pc' = "report"
       ELSE /\ stdout' = Append(stdout, Line("no unique words", <<>>, 0))
            /\ pc' = "done"
            /\ UNCHANGED <<calls, clean_unique_words>>
    /\ UNCHANGED <<raised, anki_vars, argv, vtt_file, fs_writable,
                   extracted_text, unique_words, out_file>>

\* main, lines 152-156: line 152 reads the name clea_unique_words
MainReportSave ==
    /\ pc = "report"
    /\ IF "clea_unique_words" \notin module_names
       THEN /\ raised' = "NameError"
            /\ UNCHANGED <<stdout, calls, out_file>>
       ELSE LET saved == save_words_to_file(clean_unique_words, fs_writable, out_file)
            IN  /\ raised' = raised
                /\ calls' = Append(calls, "save_words_to_file")
                /\ out_file' = saved.content
                /\ stdout' = stdout
                       \o <<Line("found", <<>>, Len(clean_unique_words)),
                            Line("attempting to save", <<>>, 0),
                            Line(IF saved.ok THEN "saved" ELSE "save error", <<>>, 0)>>
    /\ pc' = "done"
    /\ UNCHANGED <<anki_vars, argv, vtt_file, fs_writable, extracted_text,
                   unique_words, clean_unique_words>>

-----------------------------------------------------------------------------
(* The inputs of the runs. *)

BoundedSeq(S, n) == UNION {[1..k -> S] : k \in 0..n}

s_dog == <<"d", "o", "g">>

s_Dog == <<"D", "o", "g">>

s_cat == <<"c", "a", "t">>

s_apple == <<"a", "p", "p", "l", "e">>

s_house == <<"h", "o", "u", "s", "e">>

s_dog2 == <<"d", "o", "g", "2">>

s_tree == <<"t", "r", "e", "e">>

s_hello == <<"h", "e", "l", "l", "o">>

s_world == <<"w", "o", "r", "l", "d">>

\* "Hello<br>World! [sound:x.mp3]"
s_hello_example ==
    <<"H", "e", "l", "l", "o">> \o s_br \o <<"W", "o", "r", "l", "d", "!", " ">>
    \o <<"[", "s", "o", "u", "n", "d", ":", "x", ".", "m", "p", "3", "]">>

\* the flds column of a note: the fields of the note joined by \x1f
FieldTexts == {s_Dog, s_hello_example, s_cat \o <<"US">> \o s_dog}

\* a row of the notes table; flds is a str unless the column holds NULL or a blob
Rows == {[is_str |-> TRUE, flds |-> t] : t \in FieldTexts}
            \cup {[is_str |-> FALSE, flds |-> <<>>]}

Databases ==
    {[found |-> FALSE, broken |-> FALSE, rows |-> <<>>],
     [found |-> TRUE, broken |-> TRUE, rows |-> <<>>]}
    \cup {[found |-> TRUE, broken |-> FALSE, rows |-> r] : r \in BoundedSeq(Rows, MaxRows)}

\* sub.txt: missing, or the lines reading it yields
SubFiles(lines, n) ==
    {[exists |-> FALSE, lines |-> <<>>]}
    \cup {[exists |-> TRUE, lines |-> l] : l \in BoundedSeq(lines, n)}

PipelineLines == {s_dog \o s_nl, <<"W", "o", "r", "l", "d">> \o s_nl, s_nl}

DiffLines ==
    {s_Dog \o s_nl, s_dog \o s_nl, <<" ">> \o s_cat \o <<" ">> \o s_nl, s_nl,
     <<"A", "p", "p", "l", "e">> \o s_nl}

KnownWords == {s_dog, s_cat, s_apple}

\* the pieces the front fields of SpecClean are put together from
Fragments == {s_br, s_div, s_div_end, <<"[">>, <<"]">>, <<"a">>, <<" ">>}

FilterWords ==
    {s_cat, s_house, s_dog2, s_tree, <<"h", "o", "u", "s", "3", "e">>,
     <<"T", "r", "e", "e", "s">>}

\* the word list of the filter example
FilterExample == <<s_cat, s_house, s_dog2, s_tree>>

CaptionTexts ==
    {<<"H", "e", "l", "l", "o", ",", " ", "w", "o", "r", "l", "d", "!">>,
     <<"T", "h", "e", " ">> \o s_house \o <<" ", "2", "d", "a", "y">>,
     <<>>}

VttFiles ==
    {[status |-> st, captions |-> <<>>] : st \in {"missing", "malformed", "unreadable"}}
    \cup {[status |-> "ok", captions |-> c] : c \in BoundedSeq(CaptionTexts, MaxCaptions)}

\* the script's name, and the script's name with one argument
ArgLists == {<<"extractor.py">>, <<"extractor.py", "captions.vtt">>}

-----------------------------------------------------------------------------
(* The runs. *)

\* no call made, nothing printed, no exception
Fresh ==
    /\ stdout = <<>>
    /\ calls = <<>>
    /\ raised = ""

\* anki.py is not the script that runs
AnkiIdle ==
    /\ db = [found |-> FALSE, broken |-> FALSE, rows |-> <<>>]
    /\ row_index = 1
    /\ front_fields = <<>>
    /\ all_words_lower_set = {}
    /\ sub_file = [exists |-> FALSE, lines |-> <<>>]
    /\ words_not_in_anki = None

\* extractor.py is not the script that runs
ExtractorIdle ==
    /\ argv = <<>>
    /\ vtt_file = [status |-> "missing", captions |-> <<>>]
    /\ fs_writable = TRUE
    /\ extracted_text = None
    /\ unique_words = <<>>
    /\ clean_unique_words = <<>>
    /\ out_file = None

\* a run of anki.py
InitAnki ==
    /\ pc = "find"
    /\ Fresh
    /\ db \in Databases
    /\ row_index = 1
    /\ front_fields = <<>>
    /\ all_words_lower_set = {}
    /\ sub_file \in SubFiles(PipelineLines, MaxLines)
    /\ words_not_in_anki = None
    /\ ExtractorIdle

\* a run of extractor.py
InitExtractor ==
    /\ pc = "args"
    /\ Fresh
    /\ AnkiIdle
    /\ argv \in ArgLists
    /\ vtt_file \in VttFiles
    /\ fs_writable \in BOOLEAN
    /\ extracted_text = None
    /\ unique_words = <<>>
    /\ clean_unique_words = <<>>
    /\ out_file = None

Init == InitAnki \/ InitExtractor

Next ==
    \/ MainFind
    \/ Connect
    \/ ProcessRow
    \/ MainWords
    \/ Compare
    \/ OutputWords
    \/ MainArgs
    \/ MainExtract
    \/ MainUnique
    \/ MainClean
    \/ MainReportSave

Spec == Init /\ [][Next]_vars

\* compare and output_words on every set of known words and every sub.txt
InitDiff ==
    /\ pc = "compare"
    /\ Fresh
    /\ db = [found |-> TRUE, broken |-> FALSE, rows |-> <<>>]
    /\ row_index = 1
    /\ front_fields = <<>>
    /\ all_words_lower_set \in SUBSET KnownWords
    /\ sub_file \in SubFiles(DiffLines, MaxDiffLines)
    /\ words_not_in_anki = None
    /\ ExtractorIdle

NextDiff == Compare \/ OutputWords

SpecDiff == InitDiff /\ [][NextDiff]_vars

\* clean_field_text on every front field put together from the fragments
InitClean ==
    /\ pc = "rows"
    /\ Fresh
    /\ \E parts \in BoundedSeq(Fragments, MaxFrags) :
           db = [found |-> TRUE, broken |-> FALSE,
                 rows |-> <<[is_str |-> TRUE, flds |-> concat(parts)]>>]
    /\ row_index = 1
    /\ front_fields = <<>>
    /\ all_words_lower_set = {}
    /\ sub_file = [exists |-> FALSE, lines |-> <<>>]
    /\ words_not_in_anki = None
    /\ ExtractorIdle

NextClean == ProcessRow

SpecClean == InitClean /\ [][NextClean]_vars

\* clean_word_list on every list of words
InitFilter ==
    /\ pc = "clean"
    /\ Fresh
    /\ AnkiIdle
    /\ argv = <<"extractor.py", "captions.vtt">>
    /\ vtt_file = [status |-> "ok", captions |-> <<>>]
    /\ fs_writable = TRUE
    /\ extracted_text = None
    /\ unique_words \in BoundedSeq(FilterWords, MaxWords) \cup {FilterExample}
    /\ clean_unique_words = <<>>
    /\ out_file = None

NextFilter == MainClean

SpecFilter == InitFilter /\ [][NextFilter]_vars

-----------------------------------------------------------------------------
(* The properties. *)

\* the words output_words has printed, in the order printed
PrintedWords ==
    LET word_lines == SelectSeq(stdout, LAMBDA line : line.msg = "word")
    IN  [i \in 1..Len(word_lines) |-> word_lines[i].arg]

\* the lines of sub.txt without their surrounding white space, blank ones dropped
ReferenceWords == {strip(sub_file.lines[i]) : i \in 1..Len(sub_file.lines)} \ {<<>>}

DiffOf(words) ==
    /\ \A w \in words : lower(w) \notin all_words_lower_set
    /\ \A w \in ReferenceWords : lower(w) \notin all_words_lower_set => w \in words

\* C1: when sub.txt exists, the list compare returns and the words output_words
\* prints are sound (the lowercased form of each is not a known word) and
\* complete (each non-blank trimmed line of sub.txt whose lowercased form is
\* not a known word is among them).
DiffSoundAndComplete ==
    /\ pc \in {"output", "done"} /\ sub_file.exists
           => words_not_in_anki.some /\ DiffOf(set(words_not_in_anki.v))
    /\ pc = "done" /\ sub_file.exists => DiffOf(set(PrintedWords))

\* C1 witness: a diff has been printed for a sub.txt that holds a known word in
\* another case than the known set has it
DiffPrinted ==
    /\ pc = "done"
    /\ PrintedWords # <<>>
    /\ \E w \in ReferenceWords : w # lower(w) /\ lower(w) \in all_words_lower_set

\* C2: the printed diff is in ascending order and no two of its entries are
\* equal after lowercasing.
DiffDedupedSorted ==
    pc = "done" =>
        /\ \A i, j \in 1..Len(PrintedWords) :
               i < j => str_less(PrintedWords[i], PrintedWords[j])
        /\ \A i, j \in 1..Len(PrintedWords) :
               i # j => lower(PrintedWords[i]) # lower(PrintedWords[j])

DiffMessages == {"words not found", "word", "total", "all words found"}

\* C3: compare returns None exactly when sub.txt does not exist, it returns the
\* empty list when sub.txt exists and holds no non-blank line, and output_words
\* prints neither a diff nor the "all words found" message after a None.
MissingFileDistinct ==
    /\ pc \in {"output", "done"} =>
           /\ words_not_in_anki = None <=> ~sub_file.exists
           /\ sub_file.exists /\ ReferenceWords = {} => words_not_in_anki = Some(<<>>)
    /\ pc = "done" /\ ~sub_file.exists =>
           \A i \in 1..Len(stdout) : stdout[i].msg \notin DiffMessages

\* C3 witness: output_words has returned in a run without sub.txt
MissingFileRun == pc = "done" /\ ~sub_file.exists /\ "output_words" \in set(calls)

HasDigit(word) == \E i \in 1..Len(word) : word[i] \in digits

Vocabulary == all_words_lower_set \cup set(unique_words)

\* C5: every word of a vocabulary set is lowercase, non-empty and free of
\* punctuation, and the front field "Hello<br>World! [sound:x.mp3]" contributes
\* exactly the words "hello" and "world".
VocabularyNormalized ==
    /\ \A w \in Vocabulary :
           /\ w # <<>>
           /\ w = lower(w)
           /\ \A i \in 1..Len(w) : w[i] \notin punctuation
    /\ pc \in {"compare", "output", "done"}
       /\ db.rows = <<[is_str |-> TRUE, flds |-> s_hello_example]>>
           => all_words_lower_set = {s_hello, s_world}

ExtractionErrors ==
    {"database error", "an error occurred", "vtt not found", "vtt malformed",
     "vtt unexpected error"}

ExtractionFailed == \E i \in 1..Len(stdout) : stdout[i].msg \in ExtractionErrors

\* C7: when the text extraction has failed, neither compare nor output_words
\* nor save_words_to_file is called in that run.
NoPartialSalvage ==
    ExtractionFailed =>
        set(calls) \cap {"compare", "output_words", "save_words_to_file"} = {}

\* C8: no exception leaves the main block of extractor.py.
NoErrorEscapes == raised \in {"", "SystemExit"}

\* C9: a run of extractor.py whose text extraction succeeded and found a word
\* has called save_words_to_file, on clean_word_list(unique_words), by its end.
SaveReached ==
    pc = "done" /\ extracted_text.some /\ unique_words # <<>> =>
        /\ "save_words_to_file" \in set(calls)
        /\ fs_writable =>
               out_file = Some(concat([i \in 1..Len(clean_unique_words) |->
                                           clean_unique_words[i] \o s_nl]))

\* C10: no cleaned front field holds a "[" with a "]" after it.
BracketsRemoved ==
    \A f \in set(front_fields) :
        ~\E i, j \in 1..Len(f) : i < j /\ f[i] = "[" /\ f[j] = "]"

====
